---------------------------- MODULE Spec2Model ----------------------------
(***************************************************************************)
(* A model of NVDA's UI Automation support for Microsoft Word              *)
(* (source/NVDAObjects/UIA/wordDocument.py).                               *)
(*                                                                         *)
(* Part 1: WordDocumentTextInfo.getTextWithFields, the in-place            *)
(*         normalisation of the field stream returned by the base class.   *)
(* Part 2: WordDocumentTextInfo.move, the end-of-row skipping loop.        *)
(* Part 3: getCommentInfoFromPosition and its two callers.                 *)
(* Part 4: WordDocumentTextInfo.expand.                                    *)
(* Part 5: WordDocumentTextInfo._getTextFromUIARange.                      *)
(* Part 6: CustomAnnotationTypeInfo (source/_UIACustomAnnotations.py).     *)
(***************************************************************************)
EXTENDS Integers, Sequences, FiniteSets, TLC

VARIABLES
    raw,        \* the list returned by super().getTextWithFields()
    fields,     \* the list object after getTextWithFields ran on raw
    raised,     \* the exception that call ended with, or "none"
    refields,   \* the list after getTextWithFields ran on its own result
    reraised,   \* the exception the second call ended with, or "none"
    phase,      \* "raw", "normalized", "renormalized"; "move" while move() runs
    doc,        \* the document's raw text, one character per offset
    unit,       \* the unit the outermost move() was called with
    direction,  \* the direction the outermost move() was called with
    origin,     \* the position before the outermost move()
    pos,        \* the (collapsed) position of the text range
    frames,     \* the call stack of move(): one record per active call
    result,     \* what the outermost move() returned (0 until it has)
    hostText,   \* what super()._getTextFromUIARange() returned
    text,       \* what _getTextFromUIARange() returned for hostText
    retext,     \* what the same substitutions make of text
    range,      \* the text range expand() works on: [start, end]
    hostRange,  \* the range as super().expand() left it
    annot,      \* the annotation objects the host has at the position
    commentInfo,   \* what getCommentInfoFromPosition() returned
    formatted,  \* what getPresentableCommentInfoFromPosition() was called with
    message,    \* what the caller spoke or returned as its label
    lookupRaised,  \* the exception the caller ended with, or "none"
    winVer,     \* winVersion.getWinVer()
    guid,       \* CustomAnnotationTypeInfo.guid
    registry,   \* the id the host's registration gives each guid
    id,         \* CustomAnnotationTypeInfo.id
    registerCalls  \* the guids registerUIAAnnotationType was called with

streamVars == <<raw, fields, raised, refields, reraised>>
moveVars == <<doc, unit, direction, origin, pos, frames, result>>
textVars == <<hostText, text, retext>>
expandVars == <<range, hostRange>>
commentVars == <<annot, commentInfo, formatted, message, lookupRaised>>
annotationVars == <<winVer, guid, registry, id, registerCalls>>
otherVars == <<textVars, expandVars, commentVars, annotationVars>>
vars == <<raw, fields, raised, refields, reraised, phase,
          doc, unit, direction, origin, pos, frames, result, otherVars>>

(***************************************************************************)
(* Bounds of the model.                                                    *)
(***************************************************************************)
MaxLen == 4         \* longest raw stream of the general specification
MaxChainLen == 7    \* longest raw stream of the ancestor-chain specification
MaxBadLen == 3      \* longest raw stream of the malformed-input specification
MaxDocLen == 4      \* longest document of the move specification
MaxTextLen == 5     \* longest raw text of a range
MaxElements == 2    \* most annotation objects at one position
MaxWinVer == 4      \* newest Windows release, counted from the oldest
MaxGuids == 2       \* annotation types a server can share
MaxId == 2          \* largest id the registration gives out
MaxSiblings == 3    \* most siblings in front of an annotation object

(***************************************************************************)
(* Fields.  A field of the stream is a FieldCommand (controlStart,         *)
(* controlEnd, formatChange) or a text string (kind "text").  fid is the   *)
(* identity of the ControlField object a command carries (0: none); a      *)
(* controlEnd carries the object of the controlStart it closes, so its     *)
(* attributes are repeated on it.                                          *)
(***************************************************************************)
Space == " "
NoPage == 0                 \* no 'page-number' key
NoRuntimeIDKey == -1        \* no 'runtimeID' key
EmptyRuntimeID == 0         \* a 'runtimeID' key with an empty (falsy) value
NoPrefix == <<"<none>">>    \* no 'line-prefix' key

ControlField(role, startOfNode, runtimeID, page) ==
    [role |-> role, startOfNode |-> startOfNode, runtimeID |-> runtimeID, page |-> page]

NoControlField == ControlField("", FALSE, NoRuntimeIDKey, NoPage)

FieldCommand(command, fid, cf, page, linePrefix, speakAlways) ==
    [kind |-> command, fid |-> fid, role |-> cf.role, startOfNode |-> cf.startOfNode,
     runtimeID |-> cf.runtimeID,
     page |-> IF command = "formatChange" THEN page ELSE cf.page,
     linePrefix |-> linePrefix, speakAlways |-> speakAlways, text |-> <<>>]

ControlStart(fid, cf) == FieldCommand("controlStart", fid, cf, NoPage, NoPrefix, FALSE)
ControlEnd(fid, cf) == FieldCommand("controlEnd", fid, cf, NoPage, NoPrefix, FALSE)
FormatChange(page) == FieldCommand("formatChange", 0, NoControlField, page, NoPrefix, FALSE)
Text(t) == [FieldCommand("text", 0, NoControlField, NoPage, NoPrefix, FALSE) EXCEPT !.text = t]

IsStart(f) == f.kind = "controlStart"
IsEnd(f) == f.kind = "controlEnd"
IsFormat(f) == f.kind = "formatChange"
IsText(f) == f.kind = "text"
CfOf(f) == ControlField(f.role, f.startOfNode, f.runtimeID, f.page)

Returned(s) == [fields |-> s, raised |-> "none"]
Raise(s, e) == [fields |-> s, raised |-> e]

(***************************************************************************)
(* Pass 1 (lines 246-254): when the first lot of controlStarts is followed *)
(* by a controlEnd, insert a blank formatChange and an empty string.       *)
(***************************************************************************)
\* a slip of lines 251-253: the two fields inserted one place too far
InsertBlankAfterEnd(s, index) ==
    SubSeq(s, 1, index) \o <<FormatChange(NoPage), Text(<<>>)>>
    \o SubSeq(s, index + 1, Len(s))

\* lines 251-253: fields.insert(index, formatChange); fields.insert(index+1, "")
InsertBlank(s, index) ==
    SubSeq(s, 1, index - 1) \o <<FormatChange(NoPage), Text(<<>>)>>
    \o SubSeq(s, index, Len(s))

RECURSIVE EnsureFirstControlHasText(_, _)
EnsureFirstControlHasText(s, index) ==
    IF index > Len(s) THEN s
    ELSE IF IsStart(s[index]) THEN EnsureFirstControlHasText(s, index + 1)
    ELSE IF IsEnd(s[index]) THEN InsertBlank(s, index)
    ELSE s

(***************************************************************************)
(* Pass 2 (lines 258-285): strip the list bullet from the first text of a  *)
(* list item and store it as line-prefix on the last formatField seen.     *)
(***************************************************************************)
RECURSIVE IndexOf(_, _, _)
\* str.index: the 1-based offset of the first c in t at or after i, 0 when
\* there is none (Python raises ValueError)
IndexOf(t, c, i) ==
    IF i > Len(t) THEN 0
    ELSE IF t[i] = c THEN i
    ELSE IndexOf(t, c, i + 1)

\* a slip of line 273: a text without a space counts as all bullet
SpaceIndexOrEnd(t) == IF IndexOf(t, Space, 1) = 0 THEN Len(t) ELSE IndexOf(t, Space, 1)

\* line 273: field.index(' ')
SpaceIndex(t) == IndexOf(t, Space, 1)

\* line 277: field[0:spaceIndex]
BulletPrefix(t, spaceIndex) == SubSeq(t, 1, spaceIndex - 1)

\* a slip of line 278: field[spaceIndex:], the space stays in the text
BulletRestWithSpace(t, spaceIndex) == SubSeq(t, spaceIndex, Len(t))

\* line 278: field[spaceIndex+1:]
BulletRest(t, spaceIndex) == SubSeq(t, spaceIndex + 1, Len(t))

RECURSIVE StripListBullet(_, _, _, _)
StripListBullet(s, index, listItemStarted, lastFormatField) ==
    IF index > Len(s) THEN Returned(s)
    ELSE LET field == s[index] IN
      IF IsStart(field)
      THEN StripListBullet(s, index + 1,
               listItemStarted \/ (field.role = "listitem" /\ field.startOfNode),
               lastFormatField)
      ELSE IF IsFormat(field)
      THEN StripListBullet(s, index + 1, listItemStarted, index)
      ELSE IF listItemStarted /\ IsText(field)
      THEN LET spaceIndex == SpaceIndex(field.text) IN
           IF spaceIndex = 0 THEN Returned(s)
           ELSE LET prefix == BulletPrefix(field.text, spaceIndex)
                    cut == [s EXCEPT ![index].text = BulletRest(field.text, spaceIndex)]
                IN IF lastFormatField = 0
                   THEN Raise(cut, "TypeError")   \* None['line-prefix'] = prefix
                   ELSE Returned([cut EXCEPT ![lastFormatField].linePrefix = prefix,
                                             ![lastFormatField].speakAlways = TRUE])
      ELSE Returned(s)

(***************************************************************************)
(* Pass 3 (lines 287-294): copy the first field's page-number onto every   *)
(* formatChange.                                                           *)
(***************************************************************************)
\* a slip of line 294: setdefault, a formatChange keeps the page-number it has
FillMissingPageNumbers(s) ==
    LET first == s[1] IN
    IF IsText(first) THEN Raise(s, "AttributeError")
    ELSE IF IsEnd(first) /\ first.fid = 0 THEN Raise(s, "TypeError")
    ELSE IF first.page = NoPage THEN Returned(s)
    ELSE Returned([i \in 1..Len(s) |->
                     IF IsFormat(s[i]) /\ s[i].page = NoPage
                     THEN [s[i] EXCEPT !.page = first.page]
                     ELSE s[i]])

FillPageNumbers(s) ==
    LET first == s[1] IN
    IF IsText(first) THEN Raise(s, "AttributeError")          \* str has no .field
    ELSE IF IsEnd(first) /\ first.fid = 0 THEN Raise(s, "TypeError")  \* None[...]
    ELSE IF first.page = NoPage THEN Returned(s)               \* KeyError, caught
    ELSE Returned([i \in 1..Len(s) |->
                     IF IsFormat(s[i]) THEN [s[i] EXCEPT !.page = first.page]
                     ELSE s[i]])

(***************************************************************************)
(* Pass 4 (lines 299-319): remove duplicated ancestors.                    *)
(***************************************************************************)
\* a slip of lines 311-312: seenStarts is never cleared
SeenNeverCleared(seenStarts) == seenStarts

\* lines 311-312: seenStarts after a field that is not a controlStart
SeenAfterOther(seenStarts) == {}

RECURSIVE PendingRemoves(_, _, _, _)
\* lines 299-312: the fids of the fields put in pendingRemoves
PendingRemoves(s, index, seenStarts, pendingRemoves) ==
    IF index > Len(s) THEN [raised |-> "none", pending |-> pendingRemoves]
    ELSE LET field == s[index] IN
      IF IsStart(field)
      THEN IF field.runtimeID = NoRuntimeIDKey
           THEN [raised |-> "KeyError", pending |-> pendingRemoves]
           ELSE IF field.runtimeID = EmptyRuntimeID
           THEN PendingRemoves(s, index + 1, seenStarts, pendingRemoves)
           ELSE IF field.runtimeID \in seenStarts
           THEN PendingRemoves(s, index + 1, seenStarts,
                               pendingRemoves \cup {field.fid})
           ELSE PendingRemoves(s, index + 1, seenStarts \cup {field.runtimeID},
                               pendingRemoves)
      ELSE PendingRemoves(s, index + 1, SeenAfterOther(seenStarts), pendingRemoves)

\* a slip of line 316: only the controlStart is deleted
IsRemovedStartOnly(field, pendingRemoves) ==
    /\ IsStart(field)
    /\ field.fid \in pendingRemoves

\* line 316: is this field deleted, given the pending removes
IsRemoved(field, pendingRemoves) ==
    /\ ~IsText(field)
    /\ field.fid # 0
    /\ field.fid \in pendingRemoves

\* lines 313-319
DeleteRemoved(s, pendingRemoves) ==
    SelectSeq(s, LAMBDA field : ~IsRemoved(field, pendingRemoves))

RemoveDuplicateAncestors(s) ==
    LET scan == PendingRemoves(s, 1, {}, {}) IN
    IF scan.raised # "none" THEN Raise(s, scan.raised)
    ELSE Returned(DeleteRemoved(s, scan.pending))

(***************************************************************************)
(* getTextWithFields (lines 240-320) on the list s.                        *)
(***************************************************************************)
Normalize(s) ==
    IF Len(s) = 0 THEN Returned(s)
    ELSE LET bullet == StripListBullet(EnsureFirstControlHasText(s, 1), 1, FALSE, 0) IN
         IF bullet.raised # "none" THEN bullet
         ELSE LET paged == FillPageNumbers(bullet.fields) IN
              IF paged.raised # "none" THEN paged
              ELSE RemoveDuplicateAncestors(paged.fields)

(***************************************************************************)
(* The raw streams.  super().getTextWithFields() (line 239) hands over a   *)
(* list built one field at a time; a controlEnd carries the ControlField   *)
(* of the innermost controlStart still open.                               *)
(***************************************************************************)
RECURSIVE OpenStarts(_, _, _)
\* the controlStarts of s that are still open, innermost last
OpenStarts(s, index, open) ==
    IF index > Len(s) THEN open
    ELSE IF IsStart(s[index]) THEN OpenStarts(s, index + 1, Append(open, s[index]))
    ELSE IF IsEnd(s[index]) /\ Len(open) > 0
         THEN OpenStarts(s, index + 1, SubSeq(open, 1, Len(open) - 1))
    ELSE OpenStarts(s, index + 1, open)

Open(s) == OpenStarts(s, 1, <<>>)
HasFormat(s) == \E i \in 1..Len(s) : IsFormat(s[i])
CloseInnermost(s) == LET o == Open(s) IN ControlEnd(o[Len(o)].fid, CfOf(o[Len(o)]))

Texts == {<<"a">>, <<Space, "a">>, <<"*", Space, "a", Space, "b">>}
FormatPages == {NoPage, 7}
ControlFields ==
    {ControlField("editabletext", TRUE, 1, NoPage),
     ControlField("editabletext", TRUE, 1, 3),
     ControlField("editabletext", FALSE, EmptyRuntimeID, NoPage),
     ControlField("listitem", TRUE, 2, NoPage),
     ControlField("listitem", FALSE, 2, NoPage)}

ChainControlFields ==
    {ControlField("table", TRUE, 1, NoPage), ControlField("tablecell", TRUE, 2, NoPage)}

BadControlFields ==
    {ControlField("editabletext", TRUE, 1, NoPage),
     ControlField("listitem", TRUE, 2, NoPage),
     ControlField("graphic", TRUE, NoRuntimeIDKey, NoPage)}

\* the parts of the state that belong to the other operations, before any ran
NoCommentInfo == [kind |-> "None", comment |-> "", author |-> "", date |-> ""]

TextIdle == hostText = <<>> /\ text = <<>> /\ retext = <<>>
ExpandIdle == range = [start |-> 0, end |-> 0] /\ hostRange = [start |-> 0, end |-> 0]
CommentIdle ==
    /\ annot = [value |-> "none", elements |-> <<>>]
    /\ commentInfo = NoCommentInfo
    /\ formatted = "not called"
    /\ message = <<>>
    /\ lookupRaised = "none"
AnnotationIdle ==
    /\ winVer = 0
    /\ guid = 0
    /\ registry = <<>>
    /\ id = -1
    /\ registerCalls = <<>>

StreamInit ==
    /\ raw = <<>>
    /\ fields = <<>>
    /\ raised = "none"
    /\ refields = <<>>
    /\ reraised = "none"
    /\ phase = "raw"
    /\ doc = <<>>
    /\ unit = "character"
    /\ direction = 0
    /\ origin = 0
    /\ pos = 0
    /\ frames = <<>>
    /\ result = 0
    /\ TextIdle /\ ExpandIdle /\ CommentIdle /\ AnnotationIdle

Init == StreamInit

\* one more field of a stream as the base class builds it
AppendField ==
    /\ phase = "raw"
    /\ Len(raw) < MaxLen
    /\ \/ \E cf \in ControlFields : raw' = Append(raw, ControlStart(Len(raw) + 1, cf))
       \/ /\ Len(Open(raw)) > 0
          /\ raw' = Append(raw, CloseInnermost(raw))
       \/ \E p \in FormatPages : raw' = Append(raw, FormatChange(p))
       \/ /\ HasFormat(raw)
          /\ \E t \in Texts : raw' = Append(raw, Text(t))
    /\ UNCHANGED <<fields, raised, refields, reraised, phase>>
    /\ UNCHANGED moveVars
    /\ UNCHANGED otherVars

\* one more field of a stream of nested tables and cells
AppendChainField ==
    /\ phase = "raw"
    /\ Len(raw) < MaxChainLen
    /\ \/ \E cf \in ChainControlFields : raw' = Append(raw, ControlStart(Len(raw) + 1, cf))
       \/ /\ Len(Open(raw)) > 0
          /\ raw' = Append(raw, CloseInnermost(raw))
       \/ raw' = Append(raw, FormatChange(NoPage))
       \/ /\ HasFormat(raw)
          /\ raw' = Append(raw, Text(<<"a">>))
    /\ UNCHANGED <<fields, raised, refields, reraised, phase>>
    /\ UNCHANGED moveVars
    /\ UNCHANGED otherVars

\* one more field of a stream that need not be well formed
AppendBadField ==
    /\ phase = "raw"
    /\ Len(raw) < MaxBadLen
    /\ \/ \E cf \in BadControlFields : raw' = Append(raw, ControlStart(Len(raw) + 1, cf))
       \/ raw' = Append(raw, IF Len(Open(raw)) > 0 THEN CloseInnermost(raw)
                                ELSE ControlEnd(0, NoControlField))
       \/ raw' = Append(raw, FormatChange(NoPage))
       \/ \E t \in {<<"a">>, <<"*", Space, "a">>} : raw' = Append(raw, Text(t))
    /\ UNCHANGED <<fields, raised, refields, reraised, phase>>
    /\ UNCHANGED moveVars
    /\ UNCHANGED otherVars

\* getTextWithFields() on the stream the base class returned
GetTextWithFields ==
    /\ phase = "raw"
    /\ LET r == Normalize(raw) IN
         /\ fields' = r.fields
         /\ raised' = r.raised
    /\ phase' = "normalized"
    /\ UNCHANGED <<raw, refields, reraised>>
    /\ UNCHANGED moveVars
    /\ UNCHANGED otherVars

\* the four passes of getTextWithFields() applied to the list it returned
NormalizeAgain ==
    /\ phase = "normalized"
    /\ raised = "none"
    /\ LET r == Normalize(fields) IN
         /\ refields' = r.fields
         /\ reraised' = r.raised
    /\ phase' = "renormalized"
    /\ UNCHANGED <<raw, fields, raised>>
    /\ UNCHANGED moveVars
    /\ UNCHANGED otherVars

Next == AppendField \/ GetTextWithFields \/ NormalizeAgain
NextChain == AppendChainField \/ GetTextWithFields \/ NormalizeAgain
NextBad == AppendBadField \/ GetTextWithFields \/ NormalizeAgain

Spec == Init /\ [][Next]_vars
SpecChain == Init /\ [][NextChain]_vars
SpecBad == Init /\ [][NextBad]_vars

(***************************************************************************)
(* Part 2: move (lines 192-208).  The document is its raw text; a          *)
(* collapsed range is the offset pos, 0..Len(doc), in front of the         *)
(* character doc[pos + 1].  The base class's move and expand are the       *)
(* host's: move goes over at most the asked number of unit starts and      *)
(* returns how many it went over, 0 at the edge of the document.           *)
(***************************************************************************)
END_OF_ROW_MARK == "<BEL>"  \* the character U+0007
Characters == {"a", Space, END_OF_ROW_MARK}
Units == {"character", "word"}
Directions == {-2, -1, 0, 1, 2}

\* the offsets a collapsed range can be moved to by unit u
UnitStarts(d, u) ==
    IF u = "character" THEN 0..Len(d)
    ELSE {0, Len(d)} \cup {i \in 1..Len(d) : d[i] = Space}

\* super().move(unit, direction): [res, pos]
HostMove(d, p, u, n) ==
    LET ahead == {b \in UnitStarts(d, u) : b > p}
        behind == {b \in UnitStarts(d, u) : b < p}
        want == IF n > 0 THEN n ELSE -n
        way == IF n > 0 THEN ahead ELSE IF n < 0 THEN behind ELSE {}
        count == IF want < Cardinality(way) THEN want ELSE Cardinality(way)
    IN IF count = 0 THEN [res |-> 0, pos |-> p]
       ELSE IF n > 0
            THEN [res |-> count,
                  pos |-> CHOOSE b \in way : Cardinality({x \in way : x <= b}) = count]
            ELSE [res |-> -count,
                  pos |-> CHOOSE b \in way : Cardinality({x \in way : x >= b}) = count]

\* expand(UNIT_CHARACTER) on a collapsed range at p: [start, end]
ExpandCharacter(d, p) ==
    [start |-> p, end |-> IF p < Len(d) THEN p + 1 ELSE Len(d)]

\* _rangeObj.getText(-1)
RangeText(d, r) == SubSeq(d, r.start + 1, r.end)

\* lines 192-196
isEndOfRow(d, p) == RangeText(d, ExpandCharacter(d, p)) = <<END_OF_ROW_MARK>>

\* line 205: the direction of one skipping step
SkipDirection(n) == IF n > 0 THEN 1 ELSE -1

\* a slip of lines 205-206: the loop goes on although the range did not move
SkipNeverBreaks(moved) == "loop"

\* lines 205-206: where the skip loop goes on after self.move() returned moved
AfterSkip(moved) == IF moved = 0 THEN "return" ELSE "loop"

Frame(n) == [direction |-> n, res |-> 0, pc |-> "super"]
Top == frames[Len(frames)]
Callers == SubSeq(frames, 1, Len(frames) - 1)

Docs == UNION {[1..n -> Characters] : n \in 1..MaxDocLen}

InitMove ==
    /\ raw = <<>>
    /\ fields = <<>>
    /\ raised = "none"
    /\ refields = <<>>
    /\ reraised = "none"
    /\ phase = "move"
    /\ doc \in Docs
    /\ unit \in Units
    /\ direction \in Directions
    /\ pos \in 0..Len(doc)
    /\ origin = pos
    /\ frames = <<Frame(direction)>>
    /\ result = 0
    /\ TextIdle /\ ExpandIdle /\ CommentIdle /\ AnnotationIdle

\* the innermost call returns v: to its caller's skip loop, or to the outside
Return(v) ==
    IF Len(frames) = 1
    THEN /\ frames' = <<>>
         /\ result' = v
    ELSE /\ frames' = [Callers EXCEPT ![Len(frames) - 1].pc = AfterSkip(v)]
         /\ UNCHANGED result

\* lines 200-202: res = super().move(unit, direction); if res == 0: return 0
MoveSuper ==
    /\ phase = "move"
    /\ Len(frames) > 0
    /\ Top.pc = "super"
    /\ LET m == HostMove(doc, pos, unit, Top.direction) IN
         /\ pos' = m.pos
         /\ IF m.res = 0 THEN Return(0)
            ELSE /\ frames' = [frames EXCEPT ![Len(frames)].res = m.res,
                                             ![Len(frames)].pc = "loop"]
                 /\ UNCHANGED result
    /\ UNCHANGED <<doc, unit, direction, origin, phase>>
    /\ UNCHANGED streamVars
    /\ UNCHANGED otherVars

\* lines 204-205 and 207: while self._isEndOfRow(): self.move(unit, 1 or -1)
MoveSkip ==
    /\ phase = "move"
    /\ Len(frames) > 0
    /\ Top.pc = "loop"
    /\ IF isEndOfRow(doc, pos)
       THEN /\ frames' = Append(frames, Frame(SkipDirection(Top.direction)))
            /\ UNCHANGED result
       ELSE Return(Top.res)
    /\ UNCHANGED <<doc, unit, direction, origin, pos, phase>>
    /\ UNCHANGED streamVars
    /\ UNCHANGED otherVars

\* lines 206-207: break; return res
MoveBreak ==
    /\ phase = "move"
    /\ Len(frames) > 0
    /\ Top.pc = "return"
    /\ Return(Top.res)
    /\ UNCHANGED <<doc, unit, direction, origin, pos, phase>>
    /\ UNCHANGED streamVars
    /\ UNCHANGED otherVars

NextMove == MoveSuper \/ MoveSkip \/ MoveBreak

\* the call runs on one thread of the host: a call that can step does step
SpecMove == InitMove /\ [][NextMove]_vars /\ WF_vars(NextMove)

(***************************************************************************)
(* Part 3: getCommentInfoFromPosition (lines 57-100), the formatter        *)
(* getPresentableCommentInfoFromPosition (lines 103-108) and the two       *)
(* callers (lines 114-117 and 386-394).  A position is what the host has   *)
(* for UIA_AnnotationObjectsAttributeId there: an empty value, a value     *)
(* that is no element array (COMError), or an array of elements.  An       *)
(* element has an annotation type, a parent (none, one without or one with *)
(* the annotation pattern) and a number of siblings in front of it.        *)
(***************************************************************************)
Element(typeID, parent, previous) ==
    [typeID |-> typeID, parent |-> parent, previous |-> previous]

Elements ==
    {Element(t, p, n) : t \in {"Comment", "other"},
                        p \in {"none", "no pattern", "annotation pattern"},
                        n \in 0..MaxSiblings}

Positions ==
    {[value |-> "empty", elements |-> <<>>],
     [value |-> "no array", elements |-> <<>>]}
    \cup {[value |-> "array", elements |-> e] :
             e \in UNION {[1..n -> Elements] : n \in 0..MaxElements}}

\* dict(comment=..., author=...) and dict(comment=..., author=..., date=...)
CommentInfo(comment, author) ==
    [kind |-> "comment,author", comment |-> comment, author |-> author, date |-> ""]
DatedCommentInfo(comment, author, date) ==
    [kind |-> "comment,author,date", comment |-> comment, author |-> author,
     date |-> date]

Found(info) == [info |-> info, raised |-> "none"]
LookupRaise(e) == [info |-> NoCommentInfo, raised |-> e]

\* lines 78-81: an element of annotation type Comment
TypedComment ==
    DatedCommentInfo("Name", "AnnotationAuthor", "AnnotationDateTime")

\* lines 92-100: the comment, its author and its date taken from the object
\* and the siblings in front of it
UntypedComment(previous) ==
    IF previous = 0
    THEN LookupRaise("AttributeError")    \* obj.previous is None: None.previous
    ELSE IF previous = 1                  \* tempObj is None
    THEN Found(CommentInfo("text", "previous.name"))
    ELSE Found(DatedCommentInfo("text", "previous.previous.name", "previous.name"))

RECURSIVE CommentInfoFromElements(_, _)
\* lines 72-100: the loop over the element array, from index on
CommentInfoFromElements(elements, index) ==
    IF index > Len(elements) THEN Found(NoCommentInfo)
    ELSE LET UIAElement == elements[index] IN
         IF UIAElement.typeID = "Comment" THEN Found(TypedComment)
         ELSE IF UIAElement.parent # "annotation pattern"
         THEN CommentInfoFromElements(elements, index + 1)
         ELSE UntypedComment(UIAElement.previous)

\* lines 57-100
getCommentInfoFromPosition(position) ==
    IF position.value = "empty" THEN Found(NoCommentInfo)          \* not val
    ELSE IF position.value = "no array" THEN Found(NoCommentInfo)  \* COMError
    ELSE CommentInfoFromElements(position.elements, 1)

\* lines 103-108: [text, raised]
getPresentableCommentInfoFromPosition(info) ==
    IF info.kind = "None"
    THEN [text |-> <<>>, raised |-> "TypeError"]      \* "date" not in None
    ELSE IF info.kind = "comment,author"
    THEN [text |-> <<"Comment: ", info.comment, " by ", info.author>>,
          raised |-> "none"]
    ELSE [text |-> <<"Comment: ", info.comment, " by ", info.author, " on ",
                     info.date>>,
          raised |-> "none"]

\* line 389: commentInfo is not None
ShouldFormat(info) == info.kind # "None"

CommentStart ==
    /\ raw = <<>>
    /\ fields = <<>>
    /\ raised = "none"
    /\ refields = <<>>
    /\ reraised = "none"
    /\ phase = "position"
    /\ doc = <<>>
    /\ unit = "character"
    /\ direction = 0
    /\ origin = 0
    /\ pos = 0
    /\ frames = <<>>
    /\ result = 0
    /\ TextIdle /\ ExpandIdle /\ AnnotationIdle
    /\ annot \in Positions
    /\ commentInfo = NoCommentInfo
    /\ formatted = "not called"
    /\ message = <<>>
    /\ lookupRaised = "none"

\* what a caller does with the result of the lookup when it formats it
Format(info, nextPhase) ==
    LET f == getPresentableCommentInfoFromPosition(info) IN
    /\ formatted' = info.kind
    /\ message' = f.text
    /\ lookupRaised' = f.raised
    /\ phase' = nextPhase

\* lines 386-394: WordDocument.script_reportCurrentComment
ReportCurrentComment ==
    /\ phase = "position"
    /\ LET r == getCommentInfoFromPosition(annot) IN
         /\ commentInfo' = r.info
         /\ IF r.raised # "none"
            THEN /\ lookupRaised' = r.raised
                 /\ phase' = "reported"
                 /\ UNCHANGED <<formatted, message>>
            ELSE IF ShouldFormat(r.info) THEN Format(r.info, "reported")
            ELSE /\ message' = <<"No comments">>
                 /\ phase' = "reported"
                 /\ UNCHANGED <<formatted, lookupRaised>>
    /\ UNCHANGED annot
    /\ UNCHANGED <<streamVars, moveVars, textVars, expandVars, annotationVars>>

\* lines 114-117: CommentUIATextInfoQuickNavItem.label
QuickNavLabel ==
    /\ phase = "position"
    /\ LET r == getCommentInfoFromPosition(annot) IN
         /\ commentInfo' = r.info
         /\ IF r.raised # "none"
            THEN /\ lookupRaised' = r.raised
                 /\ phase' = "labelled"
                 /\ UNCHANGED <<formatted, message>>
            ELSE Format(r.info, "labelled")
    /\ UNCHANGED annot
    /\ UNCHANGED <<streamVars, moveVars, textVars, expandVars, annotationVars>>

NextComment == ReportCurrentComment \/ QuickNavLabel
SpecComment == CommentStart /\ [][NextComment]_vars

(***************************************************************************)
(* Part 4: expand (lines 210-218).  super().expand, the end-point form of  *)
(* super().move and isCollapsed are the host's range primitives: expanding *)
(* gives the unit that encloses the start of the range, or fails silently  *)
(* and leaves the range as it was (#7970).                                 *)
(***************************************************************************)
\* the ranges over d: start <= end
Ranges(d) == {r \in [start : 0..Len(d), end : 0..Len(d)] : r.start <= r.end}

\* the unit of d that encloses offset p
EnclosingUnit(d, p, u) ==
    LET behind == {b \in UnitStarts(d, u) : b <= p}
        ahead == {b \in UnitStarts(d, u) : b > p}
    IN [start |-> CHOOSE b \in behind : \A x \in behind : x <= b,
        end |-> IF ahead = {} THEN Len(d)
                ELSE CHOOSE b \in ahead : \A x \in ahead : b <= x]

\* super().expand(unit): the ranges the host can leave
HostExpand(d, r, u) == {EnclosingUnit(d, r.start, u), r}

\* super().move(unit, direction, endPoint="end"): [res, range]
HostMoveEnd(d, r, u, n) ==
    LET m == HostMove(d, r.end, u, n) IN
    [res |-> m.res, range |-> [start |-> r.start, end |-> m.pos]]

\* self.isCollapsed
isCollapsed(r) == r.start = r.end

\* a slip of lines 216-218: the end is set to the end of the document at once
ExtendEndToDocumentEnd(d, r, u) == [start |-> r.start, end |-> Len(d)]

\* lines 216-218: move the end one unit on; when that moves nothing, set the
\* end to the end of the document
ExtendEnd(d, r, u) ==
    LET m == HostMoveEnd(d, r, u, 1) IN
    IF m.res = 0 THEN [start |-> r.start, end |-> Len(d)]
    ELSE m.range

InitExpand ==
    /\ raw = <<>>
    /\ fields = <<>>
    /\ raised = "none"
    /\ refields = <<>>
    /\ reraised = "none"
    /\ phase = "expand"
    /\ doc \in Docs
    /\ unit \in Units
    /\ direction = 0
    /\ origin = 0
    /\ pos = 0
    /\ frames = <<>>
    /\ result = 0
    /\ TextIdle /\ CommentIdle /\ AnnotationIdle
    /\ range \in Ranges(doc)
    /\ hostRange = range

\* lines 210-218: WordDocumentTextInfo.expand
Expand ==
    /\ phase = "expand"
    /\ \E h \in HostExpand(doc, range, unit) :
         /\ hostRange' = h
         /\ range' = IF isCollapsed(h) THEN ExtendEnd(doc, h, unit) ELSE h
    /\ phase' = "expanded"
    /\ UNCHANGED <<doc, unit, direction, origin, pos, frames, result>>
    /\ UNCHANGED <<streamVars, textVars, commentVars, annotationVars>>

NextExpand == Expand
SpecExpand == InitExpand /\ [][NextExpand]_vars

(***************************************************************************)
(* Part 5: _getTextFromUIARange (lines 182-190).  A text is a sequence of  *)
(* characters; super()._getTextFromUIARange gives the raw text of the host.*)
(***************************************************************************)
VT == "<VT>"    \* '\v'
CR == "<CR>"    \* '\r'
TextCharacters == {"a", "b", "c", VT, CR, END_OF_ROW_MARK}
HostTexts == UNION {[1..n -> TextCharacters] : n \in 0..MaxTextLen}

RECURSIVE ReplaceFirst(_, _, _)
\* a slip of str.replace: only the first occurrence is replaced
ReplaceFirst(t, old, new) ==
    IF t = <<>> THEN <<>>
    ELSE IF Head(t) = old THEN new \o Tail(t)
    ELSE <<Head(t)>> \o ReplaceFirst(Tail(t), old, new)

RECURSIVE Replace(_, _, _)
\* t.replace(old, new) for a character old and a string new
Replace(t, old, new) ==
    IF t = <<>> THEN <<>>
    ELSE IF Head(t) = old THEN new \o Replace(Tail(t), old, new)
    ELSE <<Head(t)>> \o Replace(Tail(t), old, new)

\* lines 184-190
getTextFromUIARange(t) ==
    IF t # <<>>
    THEN Replace(Replace(t, VT, <<CR>>), END_OF_ROW_MARK, <<>>)
    ELSE t

InitText ==
    /\ raw = <<>>
    /\ fields = <<>>
    /\ raised = "none"
    /\ refields = <<>>
    /\ reraised = "none"
    /\ phase = "raw text"
    /\ doc = <<>>
    /\ unit = "character"
    /\ direction = 0
    /\ origin = 0
    /\ pos = 0
    /\ frames = <<>>
    /\ result = 0
    /\ ExpandIdle /\ CommentIdle /\ AnnotationIdle
    /\ hostText \in HostTexts
    /\ text = <<>>
    /\ retext = <<>>

\* lines 182-190 on the raw text of the host
GetText ==
    /\ phase = "raw text"
    /\ text' = getTextFromUIARange(hostText)
    /\ phase' = "text"
    /\ UNCHANGED <<hostText, retext>>
    /\ UNCHANGED <<doc, unit, direction, origin, pos, frames, result>>
    /\ UNCHANGED <<streamVars, expandVars, commentVars, annotationVars>>

\* lines 182-190 on a text that went through them already
GetTextAgain ==
    /\ phase = "text"
    /\ retext' = getTextFromUIARange(text)
    /\ phase' = "text again"
    /\ UNCHANGED <<hostText, text>>
    /\ UNCHANGED <<doc, unit, direction, origin, pos, frames, result>>
    /\ UNCHANGED <<streamVars, expandVars, commentVars, annotationVars>>

NextText == GetText \/ GetTextAgain
SpecText == InitText /\ [][NextText]_vars

(***************************************************************************)
(* Part 6: CustomAnnotationTypeInfo (_UIACustomAnnotations.py, lines       *)
(* 36-58).  Windows releases are counted from the oldest; the registry is  *)
(* what registerUIAAnnotationType answers for each guid.                   *)
(***************************************************************************)
WIN11 == 2    \* winVersion.WIN11 among the releases 0..MaxWinVer
WinVersions == 0..MaxWinVer
Guids == 1..MaxGuids
Registries == [Guids -> 0..MaxId]

\* a slip of line 52: Windows 11 itself is left out
NewerThanWin11(v) == v > WIN11

\* line 52: winVersion.getWinVer() >= winVersion.WIN11
AtLeastWin11(v) == v >= WIN11

\* lines 54-56: NVDAHelper.localLib.registerUIAAnnotationType(byref(guid))
registerUIAAnnotationType(reg, g) == reg[g]

InitAnnotation ==
    /\ raw = <<>>
    /\ fields = <<>>
    /\ raised = "none"
    /\ refields = <<>>
    /\ reraised = "none"
    /\ phase = "construct"
    /\ doc = <<>>
    /\ unit = "character"
    /\ direction = 0
    /\ origin = 0
    /\ pos = 0
    /\ frames = <<>>
    /\ result = 0
    /\ TextIdle /\ ExpandIdle /\ CommentIdle
    /\ winVer \in WinVersions
    /\ guid \in Guids
    /\ registry \in Registries
    /\ id = -1
    /\ registerCalls = <<>>

\* lines 41-58: CustomAnnotationTypeInfo(guid), __post_init__ included
Construct ==
    /\ phase = "construct"
    /\ IF AtLeastWin11(winVer)
       THEN /\ id' = registerUIAAnnotationType(registry, guid)
            /\ registerCalls' = Append(registerCalls, guid)
       ELSE /\ id' = 0
            /\ UNCHANGED registerCalls
    /\ phase' = "constructed"
    /\ UNCHANGED <<winVer, guid, registry>>
    /\ UNCHANGED <<doc, unit, direction, origin, pos, frames, result>>
    /\ UNCHANGED <<streamVars, textVars, expandVars, commentVars>>

NextAnnotation == Construct
SpecAnnotation == InitAnnotation /\ [][NextAnnotation]_vars

(***************************************************************************)
(* Vocabulary of the properties.                                           *)
(***************************************************************************)
Done == phase # "raw"
Range(s) == {s[i] : i \in 1..Len(s)}
TextsOf(s) == LET t == SelectSeq(s, IsText) IN [i \in 1..Len(t) |-> t[i].text]
FormatsOf(s) == SelectSeq(s, IsFormat)
PagesOf(s) == LET f == FormatsOf(s) IN [i \in 1..Len(f) |-> f[i].page]

\* the number of controlStarts at the head of s
LeadingStarts(s) ==
    IF \A i \in 1..Len(s) : IsStart(s[i]) THEN Len(s)
    ELSE (CHOOSE i \in 1..Len(s) :
             ~IsStart(s[i]) /\ \A m \in 1..(i - 1) : IsStart(s[m])) - 1

\* s starts with one or more controlStarts directly followed by a controlEnd
EmptyLeadingControl(s) ==
    LET n == LeadingStarts(s) IN n >= 1 /\ n < Len(s) /\ IsEnd(s[n + 1])

\* s[j] is a controlStart that repeats the runtimeID of an earlier controlStart
\* with nothing but controlStarts between the two
IsDuplicateStart(s, j) ==
    /\ IsStart(s[j])
    /\ s[j].runtimeID \notin {EmptyRuntimeID, NoRuntimeIDKey}
    /\ \E i \in 1..(j - 1) :
          /\ \A m \in i..j : IsStart(s[m])
          /\ s[i].runtimeID = s[j].runtimeID

DuplicateFids(s) == {s[j].fid : j \in {k \in 1..Len(s) : IsDuplicateStart(s, k)}}

\* the commands of s that carry the ControlField of a duplicate
DuplicateCommands(s) ==
    {i \in 1..Len(s) : (IsStart(s[i]) \/ IsEnd(s[i])) /\ s[i].fid \in DuplicateFids(s)}

RECURSIVE BalancedFrom(_, _, _)
\* every controlEnd closes the innermost open controlStart, and none stays open
BalancedFrom(s, index, open) ==
    IF index > Len(s) THEN open = <<>>
    ELSE IF IsStart(s[index]) THEN BalancedFrom(s, index + 1, Append(open, s[index].fid))
    ELSE IF IsEnd(s[index])
         THEN /\ Len(open) > 0
              /\ open[Len(open)] = s[index].fid
              /\ BalancedFrom(s, index + 1, SubSeq(open, 1, Len(open) - 1))
    ELSE BalancedFrom(s, index + 1, open)

Balanced(s) == BalancedFrom(s, 1, <<>>)

\* a stream as the base class builds it never makes getTextWithFields raise
WellFormedNeverRaises == raised = "none" /\ reraised = "none"

(***************************************************************************)
(* C1                                                                      *)
(***************************************************************************)
\* C1 as stated: when the leading controlStarts of the stream are directly
\* followed by a controlEnd, the normalised stream holds an empty formatChange
\* and an empty string right before that controlEnd, and is 2 fields longer.
C1_BlankInsertedLengthPlusTwo ==
    (Done /\ EmptyLeadingControl(raw)) =>
        LET n == LeadingStarts(raw) IN
        /\ raised = "none"
        /\ Len(fields) = Len(raw) + 2
        /\ fields[n + 1] = FormatChange(NoPage)
        /\ fields[n + 2] = Text(<<>>)
        /\ fields[n + 3] = raw[n + 1]

\* C1 amended: when the leading controlStarts of the stream are directly
\* followed by a controlEnd, the normalised stream holds, right after its
\* leading controlStarts, a formatChange that carries nothing but the first
\* field's page-number (nothing when there is none) and an empty string, then
\* that controlEnd unless it was removed with a duplicate controlStart; its
\* length is the raw length plus 2 minus the commands removed as duplicates.
C1_BlankInsertedAfterLeadingStarts ==
    (Done /\ EmptyLeadingControl(raw)) =>
        LET n == LeadingStarts(raw)
            k == LeadingStarts(fields)
        IN
        /\ raised = "none"
        /\ Len(fields) = Len(raw) + 2 - Cardinality(DuplicateCommands(raw))
        /\ k = n - Cardinality({i \in 1..n : IsDuplicateStart(raw, i)})
        /\ fields[k + 1] = FormatChange(raw[1].page)
        /\ fields[k + 2] = Text(<<>>)
        /\ (raw[n + 1].fid \notin DuplicateFids(raw) => fields[k + 3] = raw[n + 1])
        /\ (DuplicateFids(raw) = {} /\ raw[1].page = NoPage =>
               fields = SubSeq(raw, 1, n) \o <<FormatChange(NoPage), Text(<<>>)>>
                        \o SubSeq(raw, n + 1, Len(raw)))

\* an empty leading control whose first field has a page-number and whose
\* controlStarts hold a duplicate has been normalised
C1_Witness ==
    /\ phase = "normalized"
    /\ EmptyLeadingControl(raw)
    /\ raw[1].page # NoPage
    /\ DuplicateFids(raw) # {}

(***************************************************************************)
(* C2                                                                      *)
(***************************************************************************)
\* C2: normalising an already normalised stream changes nothing.
C2_Idempotent ==
    phase = "renormalized" => (reraised = "none" /\ refields = fields)

(***************************************************************************)
(* C3                                                                      *)
(***************************************************************************)
\* the malformed shapes: a text string first, a list item's text with no
\* formatChange before it, a controlStart without a runtimeID
Malformed(s) ==
    \/ Len(s) > 0 /\ IsText(s[1])
    \/ \E k \in 1..Len(s) :
          /\ IsText(s[k])
          /\ \A m \in 1..(k - 1) : IsStart(s[m])
          /\ \E m \in 1..(k - 1) : s[m].role = "listitem" /\ s[m].startOfNode
    \/ \E k \in 1..Len(s) : IsStart(s[k]) /\ s[k].runtimeID = NoRuntimeIDKey

\* C3: getTextWithFields never raises, returns a malformed stream unchanged,
\* and returns an empty stream unchanged.
C3_MalformedPassesThrough ==
    Done =>
        /\ raised = "none"
        /\ (Malformed(raw) => fields = raw)
        /\ (raw = <<>> => fields = <<>>)

(***************************************************************************)
(* C4                                                                      *)
(***************************************************************************)
\* C4: a stream whose controlStarts and controlEnds are balanced is still
\* balanced once normalised.
C4_BalancedStaysBalanced ==
    (Done /\ Balanced(raw)) => (raised = "none" /\ Balanced(fields))

\* a balanced stream that holds a duplicated ancestor has been normalised
C4_Witness ==
    /\ phase = "normalized"
    /\ Balanced(raw)
    /\ DuplicateFids(raw) # {}
    /\ Len(fields) < Len(raw)

(***************************************************************************)
(* C5                                                                      *)
(***************************************************************************)
\* C5: the stream returned for a balanced raw stream holds no controlStart
\* that repeats the non-empty runtimeID of an earlier controlStart of its run.
C5_NoDuplicateInChain ==
    (Done /\ raised = "none" /\ Balanced(raw)) =>
        \A j \in 1..Len(fields) : ~IsDuplicateStart(fields, j)

(***************************************************************************)
(* C6                                                                      *)
(***************************************************************************)
Kept(f) == f \in Range(fields)

\* C6: of two controlStarts that alone share a non-empty runtimeID, the second
\* is removed and the first kept when only controlStarts lie between them, and
\* both are kept when another field lies between them; in general a
\* controlStart is removed exactly when it repeats the runtimeID of an earlier
\* controlStart of its run.
C6_SecondOfRunRemoved ==
    Done =>
        /\ \A j \in 1..Len(raw) :
              IsStart(raw[j]) => (Kept(raw[j]) <=> ~IsDuplicateStart(raw, j))
        /\ \A i, j \in 1..Len(raw) :
              ( /\ i < j
                /\ IsStart(raw[i]) /\ IsStart(raw[j])
                /\ raw[i].runtimeID = raw[j].runtimeID
                /\ raw[i].runtimeID # EmptyRuntimeID
                /\ \A m \in 1..Len(raw) :
                      (IsStart(raw[m]) /\ raw[m].runtimeID = raw[i].runtimeID)
                          => m \in {i, j} )
              => IF \A m \in i..j : IsStart(raw[m])
                 THEN Kept(raw[i]) /\ ~Kept(raw[j])
                 ELSE Kept(raw[i]) /\ Kept(raw[j])

\* i < j are the only two controlStarts of raw with their runtimeID
OnlyPair(i, j) ==
    /\ i < j
    /\ IsStart(raw[i]) /\ IsStart(raw[j])
    /\ raw[i].runtimeID = raw[j].runtimeID
    /\ raw[i].runtimeID # EmptyRuntimeID
    /\ \A m \in 1..Len(raw) :
          (IsStart(raw[m]) /\ raw[m].runtimeID = raw[i].runtimeID) => m \in {i, j}

\* a stream with one pair inside a run, whose second controlStart was removed,
\* and one pair split by another field, both kept
C6_Witness ==
    /\ phase = "normalized"
    /\ \E i, j \in 1..Len(raw) :
          /\ OnlyPair(i, j)
          /\ \A m \in i..j : IsStart(raw[m])
          /\ Kept(raw[i]) /\ ~Kept(raw[j])
    /\ \E i, j \in 1..Len(raw) :
          /\ OnlyPair(i, j)
          /\ \E m \in i..j : ~IsStart(raw[m])
          /\ Kept(raw[i]) /\ Kept(raw[j])

(***************************************************************************)
(* C7, C8                                                                  *)
(***************************************************************************)
\* the part of t before its first space, and the part after it
FirstSpace(t) == CHOOSE i \in 1..Len(t) : t[i] = Space /\ \A m \in 1..(i - 1) : t[m] # Space
HasSpace(t) == \E i \in 1..Len(t) : t[i] = Space
BeforeFirstSpace(t) == [i \in 1..(FirstSpace(t) - 1) |-> t[i]]
AfterFirstSpace(t) == [i \in 1..(Len(t) - FirstSpace(t)) |-> t[FirstSpace(t) + i]]

\* raw[k] is the first text, only controlStarts and formatChanges come before
\* it, and one of those controlStarts starts a list item
ListItemText(k) ==
    /\ k \in 1..Len(raw)
    /\ IsText(raw[k])
    /\ \A m \in 1..(k - 1) : IsStart(raw[m]) \/ IsFormat(raw[m])
    /\ \E m \in 1..(k - 1) :
          IsStart(raw[m]) /\ raw[m].role = "listitem" /\ raw[m].startOfNode

FormatsBefore(k) == Cardinality({m \in 1..(k - 1) : IsFormat(raw[m])})

\* C7: when the first text of a started list item holds a space and a
\* formatChange came before it, the text is replaced by what follows its first
\* space, the last formatChange before it gets line-prefix = what precedes
\* that space and line-prefix_speakAlways = true, and no other text and no
\* other formatChange's prefix is changed.
C7_BulletMovedToLinePrefix ==
    Done =>
        \A k \in 1..Len(raw) :
            (ListItemText(k) /\ HasSpace(raw[k].text) /\ FormatsBefore(k) > 0) =>
                LET c == FormatsBefore(k)
                    f == FormatsOf(fields)
                IN
                /\ raised = "none"
                /\ TextsOf(fields) =
                       [TextsOf(raw) EXCEPT ![1] = AfterFirstSpace(raw[k].text)]
                /\ Len(f) = Len(FormatsOf(raw))
                /\ f[c].linePrefix = BeforeFirstSpace(raw[k].text)
                /\ f[c].speakAlways
                /\ \A m \in 1..Len(f) :
                      m # c => (f[m].linePrefix = NoPrefix /\ ~f[m].speakAlways)

\* a list item whose bullet was extracted, followed by another text with a space
C7_Witness ==
    /\ phase = "normalized"
    /\ \E k \in 1..Len(raw) :
          /\ ListItemText(k) /\ HasSpace(raw[k].text) /\ FormatsBefore(k) > 0
          /\ k < Len(raw)
          /\ IsText(raw[k + 1]) /\ HasSpace(raw[k + 1].text)
          /\ fields[k + 1] = raw[k + 1]
          /\ fields[k].text = <<"a", Space, "b">>

\* C8: when the first text of a started list item holds no space, no text is
\* changed, no formatChange gets a line-prefix or line-prefix_speakAlways, and
\* nothing is raised.
C8_NoSpaceLeavesStream ==
    Done =>
        \A k \in 1..Len(raw) :
            (ListItemText(k) /\ ~HasSpace(raw[k].text)) =>
                /\ raised = "none"
                /\ TextsOf(fields) = TextsOf(raw)
                /\ \A m \in 1..Len(fields) :
                      IsFormat(fields[m]) =>
                          (fields[m].linePrefix = NoPrefix /\ ~fields[m].speakAlways)

\* a started list item whose first text has no space, with a later text that has one
C8_Witness ==
    /\ phase = "normalized"
    /\ \E k \in 1..Len(raw) :
          /\ ListItemText(k) /\ ~HasSpace(raw[k].text)
          /\ k < Len(raw)
          /\ IsText(raw[k + 1]) /\ HasSpace(raw[k + 1].text)

(***************************************************************************)
(* C9                                                                      *)
(***************************************************************************)
\* the first field of s that is not a controlStart is a controlEnd
BlankInserted(s) ==
    LET n == LeadingStarts(s) IN n < Len(s) /\ IsEnd(s[n + 1])

\* C9: when the first field is a controlStart with page-number p, every
\* formatChange of the returned stream has page-number p; when the first field
\* has no page-number, the formatChanges of the raw stream keep theirs (and the
\* blank formatChange that pass 1 inserts has none).
C9_PageNumberPropagated ==
    (Done /\ raised = "none" /\ Len(raw) > 0) =>
        /\ (IsStart(raw[1]) /\ raw[1].page # NoPage) =>
               /\ \A m \in 1..Len(fields) :
                     IsFormat(fields[m]) => fields[m].page = raw[1].page
               /\ Len(FormatsOf(fields)) =
                     Len(FormatsOf(raw)) + (IF BlankInserted(raw) THEN 1 ELSE 0)
        /\ raw[1].page = NoPage =>
               PagesOf(fields) = (IF BlankInserted(raw) THEN <<NoPage>> ELSE <<>>)
                                 \o PagesOf(raw)

\* the first field has a page-number and a formatChange had another one
C9_Witness ==
    /\ phase = "normalized"
    /\ Len(raw) > 0
    /\ IsStart(raw[1]) /\ raw[1].page = 3
    /\ \E m \in 1..Len(raw) : IsFormat(raw[m]) /\ raw[m].page = 7
    /\ \E m \in 1..Len(raw) : IsFormat(raw[m]) /\ raw[m].page = NoPage

(***************************************************************************)
(* C10                                                                     *)
(***************************************************************************)
MoveDone == phase = "move" /\ frames = <<>>
Sign(n) == IF n > 0 THEN 1 ELSE IF n < 0 THEN -1 ELSE 0

\* C10: move() without an endPoint returns; when it has, the range is not on
\* an end-of-row mark or one more unit the same way moves it by 0; the range
\* is then where the last move that moved left it: on the asked side of where
\* it began when move() returns non-zero, and where it began when it returns 0.
C10_MoveEndsOffMarkOrAtEdge ==
    /\ <>MoveDone
    /\ [](MoveDone =>
            /\ \/ ~isEndOfRow(doc, pos)
               \/ HostMove(doc, pos, unit, Sign(direction)).res = 0
            /\ result = HostMove(doc, origin, unit, direction).res
            /\ (result = 0 => pos = origin)
            /\ (result # 0 => Sign(pos - origin) = Sign(direction)))

\* move() moved, skipped on to the edge of the document and ended there on an
\* end-of-row mark
C10_Witness ==
    /\ MoveDone
    /\ result # 0
    /\ isEndOfRow(doc, pos)
    /\ pos # HostMove(doc, origin, unit, direction).pos

(***************************************************************************)
(* C11                                                                     *)
(***************************************************************************)
LookupDone == phase \in {"reported", "labelled"}

\* C11: at a position without annotation (the attribute empty, or its value
\* no element array) the lookup returns None, and neither caller hands None
\* to getPresentableCommentInfoFromPosition.
C11_AbsentNeverFormatted ==
    LookupDone =>
        /\ (annot.value \in {"empty", "no array"} => commentInfo = NoCommentInfo)
        /\ formatted # "None"
        /\ lookupRaised # "TypeError"

(***************************************************************************)
(* C12                                                                     *)
(***************************************************************************)
Expanded == phase = "expanded"

\* the first offset after p that a move by unit u can reach, or the end of
\* the document when there is none
NextUnitStartOrEnd(d, p, u) ==
    IF \E b \in UnitStarts(d, u) : b > p
    THEN CHOOSE b \in UnitStarts(d, u) :
             b > p /\ \A x \in UnitStarts(d, u) : x > p => b <= x
    ELSE Len(d)

WithoutMarks(t) == SelectSeq(t, LAMBDA c : c # END_OF_ROW_MARK)

\* t with a carriage return in the place of every vertical tab
TabsAsReturns(t) == [i \in 1..Len(t) |-> IF t[i] = VT THEN CR ELSE t[i]]

\* C13: the text returned is the raw text with every vertical tab replaced
\* by a carriage return and every end-of-row mark deleted, the other
\* characters kept in order; the same substitution applied to its own
\* output changes nothing.
C13_TabsReplacedMarksDeleted ==
    /\ phase \in {"text", "text again"} =>
           text = WithoutMarks(TabsAsReturns(hostText))
    /\ phase = "text again" => retext = text

C13_Witness ==
    /\ phase = "text again"
    /\ hostText = <<"a", VT, "b", END_OF_ROW_MARK, "c">>
    /\ text = <<"a", CR, "b", "c">>
    /\ retext = text

(***************************************************************************)
(* C14                                                                     *)
(***************************************************************************)
Constructed == phase = "constructed"

\* C14: on a Windows older than Windows 11 the constructed
\* CustomAnnotationTypeInfo has id 0 and registerUIAAnnotationType was not
\* called; on Windows 11 or later its id is what the registration call
\* answered for its guid.
C14_IdZeroBeforeWin11ElseRegistered ==
    Constructed =>
        IF winVer < WIN11
        THEN id = 0 /\ registerCalls = <<>>
        ELSE registerCalls = <<guid>> /\ id = registry[guid]

C14_Witness ==
    /\ Constructed
    /\ winVer = WIN11
    /\ registerCalls = <<guid>>
    /\ id = registry[guid]
    /\ id # 0

(***************************************************************************)
(* C15                                                                     *)
(***************************************************************************)
\* the first element of the position is an object of no Comment type whose
\* parent has the annotation pattern
UntypedFallback ==
    /\ annot.value = "array"
    /\ Len(annot.elements) > 0
    /\ annot.elements[1].typeID # "Comment"
    /\ annot.elements[1].parent = "annotation pattern"

\* C15: in the untyped fallback the lookup gives comment, author (name of
\* the second sibling before the object) and date (name of the sibling just
\* before it) when the object has two or more siblings in front of it, and
\* comment and author only, without raising, when it has fewer, none
\* included.
C15_UntypedFallbackDegrades ==
    (LookupDone /\ UntypedFallback) =>
        IF annot.elements[1].previous >= 2
        THEN commentInfo =
                 DatedCommentInfo("text", "previous.previous.name", "previous.name")
        ELSE /\ commentInfo.kind = "comment,author"
             /\ commentInfo.comment = "text"
             /\ lookupRaised = "none"

=============================================================================
